---------------------------- MODULE Spec2Model ----------------------------
(***************************************************************************)
(* slump: stream the conversation history of one Slack channel to stdout   *)
(* as a single JSON array.                                                 *)
(*                                                                         *)
(* Two entry points of the repository are modelled:                        *)
(*   prog = "main"     src/src/main.rs  main(): fetch chunk, write chunk,  *)
(*                     loop while the chunk is NonTerminal, write "]".     *)
(*   prog = "messages" src/src/slack.rs Slack::messages() followed by      *)
(*                     pulls of Messages::next by some consumer.           *)
(* The Slack API is the environment: it answers every request with one     *)
(* response drawn from Responses(n).  stdout is the environment too: a     *)
(* flush of the BufWriter may succeed or fail.                             *)
(***************************************************************************)
EXTENDS Integers, Sequences, FiniteSets

VARIABLES
    prog,       \* which entry point runs: "main" or "messages"
    pc,         \* position in main / life cycle of the Messages iterator
    chunk,      \* main: message_chunk; messages: Messages.current_chunk
    pos,        \* main: index of the next message of write_message_chunk
    reqs,       \* the HTTP requests issued so far, in order
    resps,      \* the response each of them received, in order
    buf,        \* bytes held by the BufWriter
    sink,       \* bytes that reached stdout
    ret,        \* what the run / the last call returned: "none", "ok", "err"
    error,      \* the anyhow error message of the failure, in parts
    yielded,    \* messages: the items returned by Messages::next so far
    lastPull,   \* messages: outcome of the last pull: none, some, end, err
    ends        \* messages: pulls answered Ok(None) on an exhausted Terminal chunk

vars == <<prog, pc, chunk, pos, reqs, resps, buf, sink, ret, error,
          yielded, lastPull, ends>>

----------------------------------------------------------------------------
(* Bounds of the model. *)

MaxPages == 3       \* the API answers has_more with a cursor at most MaxPages-1 times
MaxMsgs == 2        \* messages per page: 0..MaxMsgs
BufCap == 2         \* tokens the BufWriter holds before it must flush
MaxFailures == 1    \* fetches the API lets fail in one run
MaxEnds == 2        \* pulls a consumer makes on an exhausted Terminal chunk

(* Program constant. *)
RESPONSE_MESSAGE_LIMIT == 1000

----------------------------------------------------------------------------
(* Option<T> *)
None == <<>>
Some(x) == <<x>>

unwrap_or(opt, default) == IF opt = None THEN default ELSE opt[1]

(* Output tokens: the bytes written, one token per write. *)
LBracket == [t |-> "[", id |-> 0]
RBracket == [t |-> "]", id |-> 0]
Comma    == [t |-> ",", id |-> 0]

(* serde_json::to_writer of one opaque message value *)
to_writer(message) == [t |-> "value", id |-> message]

----------------------------------------------------------------------------
(* The environment: responses of the conversations.history endpoint. *)

(* the k messages of the n-th response, distinct over the whole run *)
PageMsgs(n, k) == [j \in 1..k |-> (n - 1) * MaxMsgs + j]

SendFailure(kind) ==
    [kind |-> kind, ok |-> FALSE, messages |-> <<>>, has_more |-> FALSE,
     response_metadata |-> None, error |-> None]

(* SlackResponse as decoded by serde: absent fields take their defaults *)
SlackResponse(n) ==
    { r \in [kind : {"json"},
             ok : BOOLEAN,
             messages : {PageMsgs(n, k) : k \in 0..MaxMsgs},
             has_more : BOOLEAN,
             response_metadata : {None, Some([next_cursor |-> n])},
             error : {None, Some("invalid_auth")}] :
        /\ r.ok => r.error = None
        /\ ~r.ok => Len(r.messages) = 1
        /\ (r.ok /\ r.has_more /\ r.response_metadata = None)
              => Len(r.messages) \in {0, MaxMsgs} }

(* a response from which pagination goes on *)
Continuing(r) ==
    r.kind = "json" /\ r.ok /\ r.has_more /\ r.response_metadata # None

(* a response that ends a well-formed chain *)
Final(r) == r.kind = "json" /\ r.ok /\ ~r.has_more

Failing(r) == ~Continuing(r) /\ ~Final(r)

FailedCount(rs) == Cardinality({i \in 1..Len(rs) : Failing(rs[i])})

(* what the API may answer to the request that follows the responses rs:   *)
(* it goes on for fewer than MaxPages pages and fails at most MaxFailures  *)
(* times                                                                   *)
Responses(rs) ==
    LET n == Len(rs) + 1
        all == SlackResponse(n) \cup {SendFailure("transport"), SendFailure("decode")}
    IN  { r \in all :
            /\ n >= MaxPages => ~Continuing(r)
            /\ FailedCount(rs) >= MaxFailures => ~Failing(r) }

----------------------------------------------------------------------------
(* MessageChunk and Result<MessageChunk> *)

NonTerminal(messages, next_cursor) ==
    [tag |-> "NonTerminal", messages |-> messages, next_cursor |-> Some(next_cursor)]

Terminal(messages) ==
    [tag |-> "Terminal", messages |-> messages, next_cursor |-> None]

NoChunk == [tag |-> "None", messages |-> <<>>, next_cursor |-> None]

Ok(c) == [ok |-> TRUE, chunk |-> c, err |-> <<>>]
Err(msg) == [ok |-> FALSE, chunk |-> NoChunk, err |-> msg]

ApiErrorText == "Error fetching data from the Slack API: "
MissingCursorText == "Error fetching additional data: Slack API response missing cursor"

(* try_from deciding by the presence of response_metadata, not by has_more *)
try_from_by_metadata(response) ==
    IF ~response.ok
    THEN Err(<<ApiErrorText, unwrap_or(response.error, "Unknown")>>)
    ELSE IF response.response_metadata # None
         THEN Ok(NonTerminal(response.messages,
                             response.response_metadata[1].next_cursor))
         ELSE Ok(Terminal(response.messages))

(* try_from without the guard on ok *)
try_from_unguarded(response) ==
    IF response.has_more
    THEN IF response.response_metadata = None
         THEN Err(<<MissingCursorText>>)
         ELSE Ok(NonTerminal(response.messages,
                             response.response_metadata[1].next_cursor))
    ELSE Ok(Terminal(response.messages))

(* try_from looking at has_more before ok *)
try_from_has_more_first(response) ==
    IF response.has_more
    THEN IF response.response_metadata = None
         THEN Err(<<MissingCursorText>>)
         ELSE IF ~response.ok
              THEN Err(<<ApiErrorText, unwrap_or(response.error, "Unknown")>>)
              ELSE Ok(NonTerminal(response.messages,
                                  response.response_metadata[1].next_cursor))
    ELSE IF ~response.ok
         THEN Err(<<ApiErrorText, unwrap_or(response.error, "Unknown")>>)
         ELSE Ok(Terminal(response.messages))

(* impl TryFrom<SlackResponse> for MessageChunk (main.rs) *)
try_from(response) ==
    IF ~response.ok
    THEN Err(<<ApiErrorText, unwrap_or(response.error, "Unknown")>>)
    ELSE IF response.has_more
         THEN IF response.response_metadata = None
              THEN Err(<<MissingCursorText>>)
              ELSE Ok(NonTerminal(response.messages,
                                  response.response_metadata[1].next_cursor))
         ELSE Ok(Terminal(response.messages))

(* a request that never carries the cursor *)
Request_without_cursor(cursor) ==
    [channel |-> "channel", limit |-> RESPONSE_MESSAGE_LIMIT, cursor |-> None]

(* the request get_message_chunk builds for a cursor *)
Request(cursor) ==
    [channel |-> "channel", limit |-> RESPONSE_MESSAGE_LIMIT, cursor |-> cursor]

(* get_message_chunk taking an undecodable body for an empty last page *)
get_message_chunk_lenient(response) ==
    IF response.kind = "transport" THEN Err(<<"error sending request">>)
    ELSE IF response.kind = "decode" THEN Ok(Terminal(<<>>))
    ELSE try_from(response)

(* get_message_chunk (main.rs): request.send()?.json()?.try_into() *)
get_message_chunk(response) ==
    IF response.kind = "transport" THEN Err(<<"error sending request">>)
    ELSE IF response.kind = "decode" THEN Err(<<"error decoding response body">>)
    ELSE try_from(response)

----------------------------------------------------------------------------
(* BufWriter<StdoutLock>: w = [buf, sink, failed] *)

Writer(b, s) == [buf |-> b, sink |-> s, failed |-> FALSE]

(* write_all of one token followed by `?`: a full buffer is flushed first,  *)
(* and the flush succeeds (io) or fails; after a failure nothing is written *)
write_all(w, tok, io) ==
    IF w.failed THEN w
    ELSE IF Len(w.buf) + 1 > BufCap
         THEN IF io
              THEN [buf |-> <<tok>>, sink |-> w.sink \o w.buf, failed |-> FALSE]
              ELSE [w EXCEPT !.failed = TRUE]
         ELSE [w EXCEPT !.buf = Append(w.buf, tok)]

(* Drop for BufWriter: one flush attempt whose error is ignored *)
drop(w, io) ==
    IF io THEN [w EXCEPT !.sink = w.sink \o w.buf, !.buf = <<>>] ELSE w

IoErrorText == "failed to write to stdout"


----------------------------------------------------------------------------
(* slack.rs: the same conversion and fetch, kept by the Slack client.  The   *)
(* chunk's messages are a consuming iterator: the messages not yet yielded.  *)

(* impl TryFrom<Response> for MessageChunk (slack.rs) *)
Slack_try_from(response) ==
    IF ~response.ok
    THEN Err(<<ApiErrorText, unwrap_or(response.error, "Unknown")>>)
    ELSE IF response.has_more
         THEN IF response.response_metadata = None
              THEN Err(<<MissingCursorText>>)
              ELSE Ok(NonTerminal(response.messages,
                                  response.response_metadata[1].next_cursor))
         ELSE Ok(Terminal(response.messages))

(* Slack::get_message_chunk *)
Slack_get_message_chunk(response) ==
    IF response.kind = "transport" THEN Err(<<"error sending request">>)
    ELSE IF response.kind = "decode" THEN Err(<<"error decoding response body">>)
    ELSE Slack_try_from(response)

(* MessageChunk::next taking the messages from the back *)
MessageChunk_next_back(c) ==
    IF c.messages = <<>>
    THEN [item |-> None, chunk |-> c]
    ELSE [item |-> Some(c.messages[Len(c.messages)]),
          chunk |-> [c EXCEPT !.messages = SubSeq(c.messages, 1, Len(c.messages) - 1)]]

(* impl Iterator for MessageChunk: next() *)
MessageChunk_next(c) ==
    IF c.messages = <<>>
    THEN [item |-> None, chunk |-> c]
    ELSE [item |-> Some(Head(c.messages)),
          chunk |-> [c EXCEPT !.messages = Tail(c.messages)]]

----------------------------------------------------------------------------
(* History helpers. *)

(* no run of the code issues more requests than this *)
MaxRequests == MaxPages + MaxFailures

(* everything handed to the BufWriter so far, flushed or not *)
Out == sink \o buf

----------------------------------------------------------------------------
Init ==
    /\ prog \in {"main", "messages"}
    /\ pc = "start"
    /\ chunk = NoChunk
    /\ pos = 1
    /\ reqs = <<>>
    /\ resps = <<>>
    /\ buf = <<>>
    /\ sink = <<>>
    /\ ret = "none"
    /\ error = <<>>
    /\ yielded = <<>>
    /\ lastPull = "none"
    /\ ends = 0

(* an error leaves main through `?`: out is dropped, the failure is returned *)
Abort(w, msg) ==
    \E io \in BOOLEAN :
        LET d == drop(w, io)
        IN  /\ buf' = d.buf
            /\ sink' = d.sink
            /\ pc' = "failed"
            /\ ret' = "err"
            /\ error' = msg

(* the comma rule looking only at the messages left in the chunk *)
needs_comma_within_chunk(c, p) ==
    p < Len(c.messages)

(* write_message_chunk, line 99: is a comma written after message pos? *)
needs_comma(c, p) ==
    p < Len(c.messages) \/ c.tag = "NonTerminal"

(* main opening the array before its initial request *)
MainInitialRequest_after_open ==
    /\ prog = "main"
    /\ pc = "start"
    /\ \E r \in Responses(resps) :
          LET res == get_message_chunk(r)
          IN  /\ reqs' = Append(reqs, Request(None))
              /\ resps' = Append(resps, r)
              /\ buf' = <<LBracket>>
              /\ IF res.ok
                 THEN /\ chunk' = res.chunk
                      /\ pc' = "write"
                      /\ UNCHANGED <<ret, error>>
                 ELSE /\ pc' = "failed"
                      /\ ret' = "err"
                      /\ error' = res.err
                      /\ UNCHANGED chunk
    /\ UNCHANGED <<prog, pos, sink, yielded, lastPull, ends>>

(* main, line 140: the initial request, made before stdout is set up *)
MainInitialRequest ==
    /\ prog = "main"
    /\ pc = "start"
    /\ \E r \in Responses(resps) :
          LET res == get_message_chunk(r)
          IN  /\ reqs' = Append(reqs, Request(None))
              /\ resps' = Append(resps, r)
              /\ IF res.ok
                 THEN /\ chunk' = res.chunk
                      /\ pc' = "open"
                      /\ UNCHANGED <<ret, error>>
                 ELSE /\ pc' = "failed"
                      /\ ret' = "err"
                      /\ error' = res.err
                      /\ UNCHANGED chunk
    /\ UNCHANGED <<prog, pos, buf, sink, yielded, lastPull, ends>>

(* main, lines 143-147: lock stdout, wrap it in a BufWriter, write "[" *)
MainOpenArray ==
    /\ prog = "main"
    /\ pc = "open"
    /\ \E io \in BOOLEAN :
          LET w == write_all(Writer(<<>>, sink), LBracket, io)
          IN  IF w.failed
              THEN Abort(w, <<IoErrorText>>) /\ UNCHANGED pos
              ELSE /\ buf' = w.buf
                   /\ sink' = w.sink
                   /\ pc' = "write"
                   /\ pos' = 1
                   /\ UNCHANGED <<ret, error>>
    /\ UNCHANGED <<prog, chunk, reqs, resps, yielded, lastPull, ends>>

(* write_message_chunk serializing the remaining messages in any order *)
write_message_chunk_any_order ==
    /\ prog = "main"
    /\ pc = "write"
    /\ pos <= Len(chunk.messages)
    /\ \E io1, io2 \in BOOLEAN, q \in pos..Len(chunk.messages) :
          LET message == chunk.messages[q]
              w1 == write_all(Writer(buf, sink), to_writer(message), io1)
              w2 == IF needs_comma(chunk, pos) THEN write_all(w1, Comma, io2) ELSE w1
          IN  IF w2.failed
              THEN Abort(w2, <<IoErrorText>>) /\ UNCHANGED pos
              ELSE /\ buf' = w2.buf
                   /\ sink' = w2.sink
                   /\ pos' = pos + 1
                   /\ UNCHANGED <<pc, ret, error>>
    /\ UNCHANGED <<prog, chunk, reqs, resps, yielded, lastPull, ends>>

(* write_message_chunk writing the separator before every message but the *)
(* first of the first page                                                 *)
write_message_chunk_leading_comma ==
    /\ prog = "main"
    /\ pc = "write"
    /\ pos <= Len(chunk.messages)
    /\ \E io1, io2 \in BOOLEAN :
          LET message == chunk.messages[pos]
              w1 == IF pos > 1 \/ Len(resps) > 1
                    THEN write_all(Writer(buf, sink), Comma, io1)
                    ELSE Writer(buf, sink)
              w2 == write_all(w1, to_writer(message), io2)
          IN  IF w2.failed
              THEN Abort(w2, <<IoErrorText>>) /\ UNCHANGED pos
              ELSE /\ buf' = w2.buf
                   /\ sink' = w2.sink
                   /\ pos' = pos + 1
                   /\ UNCHANGED <<pc, ret, error>>
    /\ UNCHANGED <<prog, chunk, reqs, resps, yielded, lastPull, ends>>

(* write_message_chunk, lines 96-102: one turn of its loop *)
write_message_chunk ==
    /\ prog = "main"
    /\ pc = "write"
    /\ pos <= Len(chunk.messages)
    /\ \E io1, io2 \in BOOLEAN :
          LET message == chunk.messages[pos]
              w1 == write_all(Writer(buf, sink), to_writer(message), io1)
              w2 == IF needs_comma(chunk, pos) THEN write_all(w1, Comma, io2) ELSE w1
          IN  IF w2.failed
              THEN Abort(w2, <<IoErrorText>>) /\ UNCHANGED pos
              ELSE /\ buf' = w2.buf
                   /\ sink' = w2.sink
                   /\ pos' = pos + 1
                   /\ UNCHANGED <<pc, ret, error>>
    /\ UNCHANGED <<prog, chunk, reqs, resps, yielded, lastPull, ends>>

(* main fetching the next chunk before the current one is written out *)
MainNextChunk_eager ==
    /\ prog = "main"
    /\ pc = "write"
    /\ chunk.tag = "NonTerminal"
    /\ Len(reqs) < MaxRequests
    /\ \E r \in Responses(resps) :
          LET res == get_message_chunk(r)
          IN  /\ reqs' = Append(reqs, Request(chunk.next_cursor))
              /\ resps' = Append(resps, r)
              /\ IF res.ok
                 THEN /\ chunk' = res.chunk
                      /\ pos' = 1
                      /\ UNCHANGED <<pc, ret, error, buf, sink>>
                 ELSE /\ Abort(Writer(buf, sink), res.err)
                      /\ UNCHANGED <<chunk, pos>>
    /\ UNCHANGED <<prog, yielded, lastPull, ends>>

(* main, lines 151-152: the chunk just written is NonTerminal: fetch the next *)
MainNextChunk ==
    /\ prog = "main"
    /\ pc = "write"
    /\ pos > Len(chunk.messages)
    /\ chunk.tag = "NonTerminal"
    /\ Len(reqs) < MaxRequests
    /\ \E r \in Responses(resps) :
          LET res == get_message_chunk(r)
          IN  /\ reqs' = Append(reqs, Request(chunk.next_cursor))
              /\ resps' = Append(resps, r)
              /\ IF res.ok
                 THEN /\ chunk' = res.chunk
                      /\ pos' = 1
                      /\ UNCHANGED <<pc, ret, error, buf, sink>>
                 ELSE /\ Abort(Writer(buf, sink), res.err)
                      /\ UNCHANGED <<chunk, pos>>
    /\ UNCHANGED <<prog, yielded, lastPull, ends>>

(* main, lines 156-159: the chunk just written is Terminal: write "]",     *)
(* return Ok(()); out is dropped on the way out                            *)
MainCloseArray ==
    /\ prog = "main"
    /\ pc = "write"
    /\ pos > Len(chunk.messages)
    /\ chunk.tag = "Terminal"
    /\ \E io1, io2 \in BOOLEAN :
          LET w == write_all(Writer(buf, sink), RBracket, io1)
              d == drop(w, io2)
          IN  IF w.failed
              THEN Abort(w, <<IoErrorText>>)
              ELSE /\ buf' = d.buf
                   /\ sink' = d.sink
                   /\ pc' = "done"
                   /\ ret' = "ok"
                   /\ UNCHANGED error
    /\ UNCHANGED <<prog, chunk, pos, reqs, resps, yielded, lastPull, ends>>

----------------------------------------------------------------------------
(* Slack::messages, lines 42-49: fetch the first chunk, build the iterator *)
Slack_messages ==
    /\ prog = "messages"
    /\ pc = "start"
    /\ \E r \in Responses(resps) :
          LET res == Slack_get_message_chunk(r)
          IN  /\ reqs' = Append(reqs, Request(None))
              /\ resps' = Append(resps, r)
              /\ IF res.ok
                 THEN /\ chunk' = res.chunk
                      /\ pc' = "iter"
                      /\ ret' = "ok"
                      /\ UNCHANGED error
                 ELSE /\ pc' = "failed"
                      /\ ret' = "err"
                      /\ error' = res.err
                      /\ UNCHANGED chunk
    /\ UNCHANGED <<prog, pos, buf, sink, yielded, lastPull, ends>>

(* Messages::next, lines 75-86, current chunk not exhausted: Ok(Some(message)) *)
Messages_next_Some ==
    /\ prog = "messages"
    /\ pc = "iter"
    /\ MessageChunk_next(chunk).item # None
    /\ LET n == MessageChunk_next(chunk)
       IN  /\ chunk' = n.chunk
           /\ yielded' = yielded \o n.item
           /\ lastPull' = "some"
           /\ ret' = "ok"
    /\ UNCHANGED <<prog, pc, pos, reqs, resps, buf, sink, error, ends>>

(* Messages::next starting over from the first page once the last is done *)
Messages_next_Terminal_restart ==
    /\ prog = "messages"
    /\ pc = "iter"
    /\ MessageChunk_next(chunk).item = None
    /\ chunk.tag = "Terminal"
    /\ ends < MaxEnds
    /\ Len(reqs) < MaxRequests
    /\ ends' = ends + 1
    /\ \E r \in Responses(resps) :
          LET res == Slack_get_message_chunk(r)
              n == MessageChunk_next(res.chunk)
          IN  /\ reqs' = Append(reqs, Request(None))
              /\ resps' = Append(resps, r)
              /\ IF res.ok
                 THEN /\ chunk' = n.chunk
                      /\ yielded' = yielded \o n.item
                      /\ lastPull' = IF n.item = None THEN "end" ELSE "some"
                      /\ ret' = "ok"
                      /\ UNCHANGED error
                 ELSE /\ lastPull' = "err"
                      /\ ret' = "err"
                      /\ error' = res.err
                      /\ UNCHANGED <<chunk, yielded>>
    /\ UNCHANGED <<prog, pc, pos, buf, sink>>

(* Messages::next, line 79: exhausted Terminal chunk: Ok(None) *)
Messages_next_Terminal ==
    /\ prog = "messages"
    /\ pc = "iter"
    /\ MessageChunk_next(chunk).item = None
    /\ chunk.tag = "Terminal"
    /\ ends < MaxEnds
    /\ lastPull' = "end"
    /\ ends' = ends + 1
    /\ ret' = "ok"
    /\ UNCHANGED <<prog, pc, chunk, pos, reqs, resps, buf, sink, error, yielded>>

(* Messages::next giving up its cursor when the fetch fails *)
Messages_next_NonTerminal_forgetting ==
    /\ prog = "messages"
    /\ pc = "iter"
    /\ MessageChunk_next(chunk).item = None
    /\ chunk.tag = "NonTerminal"
    /\ Len(reqs) < MaxRequests
    /\ \E r \in Responses(resps) :
          LET res == Slack_get_message_chunk(r)
              n == MessageChunk_next(res.chunk)
          IN  /\ reqs' = Append(reqs, Request(chunk.next_cursor))
              /\ resps' = Append(resps, r)
              /\ IF res.ok
                 THEN /\ chunk' = n.chunk
                      /\ yielded' = yielded \o n.item
                      /\ lastPull' = IF n.item = None THEN "end" ELSE "some"
                      /\ ends' = IF n.item = None /\ n.chunk.tag = "Terminal"
                                 THEN ends + 1 ELSE ends
                      /\ ret' = "ok"
                      /\ UNCHANGED error
                 ELSE /\ lastPull' = "err"
                      /\ ret' = "err"
                      /\ error' = res.err
                      /\ chunk' = Terminal(<<>>)
                      /\ UNCHANGED <<yielded, ends>>
    /\ UNCHANGED <<prog, pc, pos, buf, sink>>

(* Messages::next, lines 80-83: exhausted NonTerminal chunk: fetch the next *)
(* chunk with the stored cursor and return its first pull                   *)
Messages_next_NonTerminal ==
    /\ prog = "messages"
    /\ pc = "iter"
    /\ MessageChunk_next(chunk).item = None
    /\ chunk.tag = "NonTerminal"
    /\ Len(reqs) < MaxRequests
    /\ \E r \in Responses(resps) :
          LET res == Slack_get_message_chunk(r)
              n == MessageChunk_next(res.chunk)
          IN  /\ reqs' = Append(reqs, Request(chunk.next_cursor))
              /\ resps' = Append(resps, r)
              /\ IF res.ok
                 THEN /\ chunk' = n.chunk
                      /\ yielded' = yielded \o n.item
                      /\ lastPull' = IF n.item = None THEN "end" ELSE "some"
                      /\ ends' = IF n.item = None /\ n.chunk.tag = "Terminal"
                                 THEN ends + 1 ELSE ends
                      /\ ret' = "ok"
                      /\ UNCHANGED error
                 ELSE /\ lastPull' = "err"
                      /\ ret' = "err"
                      /\ error' = res.err
                      /\ UNCHANGED <<chunk, yielded, ends>>
    /\ UNCHANGED <<prog, pc, pos, buf, sink>>

----------------------------------------------------------------------------
Next ==
    \/ MainInitialRequest
    \/ MainOpenArray
    \/ write_message_chunk
    \/ MainNextChunk
    \/ MainCloseArray
    \/ Slack_messages
    \/ Messages_next_Some
    \/ Messages_next_Terminal
    \/ Messages_next_NonTerminal

Spec == Init /\ [][Next]_vars

(* main runs to its end once started; a consumer keeps pulling *)
FairSpec == Spec /\ WF_vars(Next)

----------------------------------------------------------------------------
(* Vocabulary of the properties. *)

Range(s) == {s[i] : i \in DOMAIN s}

Last(s) == s[Len(s)]

Contains(msg, text) == \E i \in DOMAIN msg : msg[i] = text

RECURSIVE AllMsgs(_)
(* the messages of the responses rs, concatenated in request order *)
AllMsgs(rs) ==
    IF rs = <<>> THEN <<>>
    ELSE AllMsgs(SubSeq(rs, 1, Len(rs) - 1)) \o Last(rs).messages

RECURSIVE Join(_)
(* the serialized messages ms joined by single commas *)
Join(ms) ==
    IF ms = <<>> THEN <<>>
    ELSE IF Len(ms) = 1 THEN <<to_writer(ms[1])>>
    ELSE <<to_writer(ms[1]), Comma>> \o Join(Tail(ms))

(* the messages serialized into out, in order *)
ValueIds(out) ==
    LET vs == SelectSeq(out, LAMBDA x : x.t = "value")
    IN  [i \in DOMAIN vs |-> vs[i].id]

NumCommas(out) == Len(SelectSeq(out, LAMBDA x : x = Comma))

(* every page but the last goes on with a cursor, the last has has_more == false *)
WellFormedChain(rs) ==
    /\ rs # <<>>
    /\ \A i \in 1..(Len(rs) - 1) : Continuing(rs[i])
    /\ Final(Last(rs))

(* a prefix of a well-formed chain *)
WellFormedSoFar(rs) ==
    \A i \in 1..Len(rs) : Continuing(rs[i]) \/ (Final(rs[i]) /\ i = Len(rs))

MainDone == prog = "main" /\ pc = "done"

----------------------------------------------------------------------------
(* C1: over a well-formed chain of pages a run of main writes exactly "["   *)
(* followed by the messages of all pages in request order joined by single *)
(* commas, followed by "]".                                                *)
ClaimC1 ==
    (MainDone /\ WellFormedChain(resps))
        => Out = <<LBracket>> \o Join(AllMsgs(resps)) \o <<RBracket>>

(* C2: a successful run with N messages writes N-1 commas when N >= 1 and  *)
(* none when N = 0, and no comma directly precedes "]".                    *)
ClaimC2 ==
    MainDone =>
        LET N == Len(AllMsgs(resps))
        IN  /\ NumCommas(Out) = IF N >= 1 THEN N - 1 ELSE 0
            /\ \A i \in 1..(Len(Out) - 1) : ~(Out[i] = Comma /\ Out[i + 1] = RBracket)

(* C3: Messages::next returns end-of-sequence only when the current chunk  *)
(* is exhausted and Terminal, hence only after the has_more == false page  *)
(* has been fetched.                                                       *)
ClaimC3 ==
    (prog = "messages" /\ lastPull = "end")
        => /\ chunk.tag = "Terminal"
           /\ chunk.messages = <<>>
           /\ Final(Last(resps))

(* the cursor a response hands out *)
CursorOf(r) == Some(r.response_metadata[1].next_cursor)

(* the latest of the first i responses that made a chunk *)
LatestChunk(i) ==
    CHOOSE j \in 1..i :
        /\ ~Failing(resps[j])
        /\ \A k \in (j + 1)..i : Failing(resps[k])

(* C4: the first request carries no cursor; every later request carries    *)
(* the next_cursor of the immediately preceding response; a successful run *)
(* over K pages makes exactly K requests.  After a failed fetch (only the  *)
(* Messages iterator can be pulled again) the request carries the cursor   *)
(* of the latest response that made a chunk.                               *)
ThmC4 ==
    /\ Len(reqs) = Len(resps)
    /\ \A i \in 1..Len(reqs) :
          /\ reqs[i].limit = RESPONSE_MESSAGE_LIMIT
          /\ i = 1 => reqs[i].cursor = None
          /\ i > 1 =>
                /\ \E j \in 1..(i - 1) : ~Failing(resps[j])
                /\ Continuing(resps[LatestChunk(i - 1)])
                /\ reqs[i].cursor = CursorOf(resps[LatestChunk(i - 1)])
                /\ ~Failing(resps[i - 1]) => LatestChunk(i - 1) = i - 1
                /\ prog = "main" => LatestChunk(i - 1) = i - 1
    /\ MainDone => WellFormedChain(resps)

WitC4 ==
    /\ MainDone
    /\ Len(reqs) = 3
    /\ reqs[1].cursor = None
    /\ reqs[3].cursor = CursorOf(resps[2])
    /\ reqs[3].cursor # reqs[2].cursor

(* C5: on a well-formed chain the fetch loop stops: no request follows the *)
(* has_more == false response, main reaches its end (and fails only if     *)
(* stdout does), and the iterator returns end-of-sequence.                 *)
ThmC5 ==
    /\ [](\A i \in 1..(Len(resps) - 1) : ~Final(resps[i]))
    /\ <>(prog = "main" => pc \in {"done", "failed"})
    /\ []((prog = "main" /\ pc = "failed" /\ WellFormedSoFar(resps))
              => error = <<IoErrorText>>)
    /\ [](MainDone => (WellFormedChain(resps) /\ Last(Out) = RBracket))
    /\ <>(prog = "messages" =>
              \/ pc = "failed"
              \/ lastPull = "err"
              \/ lastPull = "end" /\ Final(Last(resps)))
    /\ []((prog = "messages" /\ WellFormedSoFar(resps))
              => (pc # "failed" /\ lastPull # "err"))

WitC5 ==
    /\ MainDone
    /\ Len(resps) = 3
    /\ WellFormedChain(resps)
    /\ Last(Out) = RBracket

ApiError(r) == r.kind = "json" /\ ~r.ok

(* every message written, yielded or held by the current chunk *)
Emitted == Range(ValueIds(Out)) \cup Range(yielded) \cup Range(chunk.messages)

(* C6: a response with ok == false makes no chunk: the fetch fails with a  *)
(* message that contains the response's error string, or "Unknown" when    *)
(* there is none, and none of its messages is written or yielded.          *)
ThmC6 ==
    \A i \in 1..Len(resps) :
        ApiError(resps[i]) =>
            /\ Range(resps[i].messages) \cap Emitted = {}
            /\ i = Len(resps) =>
                  /\ ret = "err"
                  /\ Contains(error, IF resps[i].error = None THEN "Unknown"
                                     ELSE resps[i].error[1])
                  /\ prog = "main" => (pc = "failed" /\ RBracket \notin Range(Out))
                  /\ prog = "messages" => (pc = "failed" \/ lastPull = "err")

WitC6 ==
    /\ prog = "main"
    /\ pc = "failed"
    /\ Len(resps) = 1
    /\ ApiError(resps[1])
    /\ resps[1].error = Some("invalid_auth")
    /\ resps[1].messages # <<>>
    /\ Contains(error, "invalid_auth")

MissingCursor(r) ==
    r.kind = "json" /\ r.ok /\ r.has_more /\ r.response_metadata = None

(* C7: a response with ok == true, has_more == true and no                  *)
(* response_metadata makes the fetch fail with the missing-cursor error     *)
(* whatever messages it carries; none of them is written or yielded and the *)
(* run does not end as if pagination were over.                             *)
ThmC7 ==
    \A i \in 1..Len(resps) :
        MissingCursor(resps[i]) =>
            /\ Range(resps[i].messages) \cap Emitted = {}
            /\ i = Len(resps) =>
                  /\ ret = "err"
                  /\ error = <<MissingCursorText>>
                  /\ prog = "main" => (pc = "failed" /\ RBracket \notin Range(Out))
                  /\ prog = "messages" =>
                        (pc = "failed" \/ (lastPull = "err" /\ chunk.tag = "NonTerminal"))

WitC7 ==
    /\ prog = "main"
    /\ pc = "failed"
    /\ Len(resps) = 2
    /\ MissingCursor(resps[2])
    /\ Len(resps[2].messages) = MaxMsgs
    /\ error = <<MissingCursorText>>

FetchFailed(rs) == \E i \in 1..Len(rs) : Failing(rs[i])

(* C8: after the first failed fetch main issues no further request, writes *)
(* nothing more, never writes "]" and returns failure.                     *)
ThmC8 ==
    /\ []((prog = "main" /\ FetchFailed(resps)) =>
              /\ Failing(Last(resps))
              /\ \A i \in 1..(Len(resps) - 1) : ~Failing(resps[i])
              /\ Len(reqs) = Len(resps)
              /\ pc = "failed"
              /\ ret = "err"
              /\ RBracket \notin Range(Out)
              /\ ValueIds(Out) = AllMsgs(SubSeq(resps, 1, Len(resps) - 1)))
    /\ [][(prog = "main" /\ FetchFailed(resps')) =>
              /\ sink' \o buf' = sink \o buf
              /\ pc' = "failed"
              /\ ret' = "err"
              /\ FetchFailed(resps) => UNCHANGED <<reqs, resps>>]_vars

WitC8 ==
    /\ prog = "main"
    /\ pc = "failed"
    /\ Len(resps) = 2
    /\ Failing(resps[2])
    /\ resps[1].messages # <<>>
    /\ Out # <<>>

(* C9 as claimed: "[" is written before the first HTTP request.            *)
ClaimC9 ==
    (prog = "main" /\ Len(reqs) >= 1) => (Out # <<>> /\ Out[1] = LBracket)

(* C9 as amended: main makes its first request before it writes anything;  *)
(* "[" is written once that request has made a chunk, before any message   *)
(* and before any later request; a run whose first request fails has       *)
(* written nothing.                                                        *)
ThmC9 ==
    prog = "main" =>
        /\ Out # <<>> => (Out[1] = LBracket /\ Len(reqs) >= 1 /\ ~Failing(resps[1]))
        /\ Len(reqs) >= 2 => (Out # <<>> /\ Out[1] = LBracket)
        /\ (Len(resps) >= 1 /\ Failing(resps[1])) => Out = <<>>
        /\ pc \in {"start", "open"} => Out = <<>>

WitC9 ==
    /\ prog = "main"
    /\ pc = "failed"
    /\ Len(resps) = 1
    /\ Failing(resps[1])
    /\ Out = <<>>

(* C10: main returns success only when "]" is the last byte written and    *)
(* all output has been flushed to stdout; a failed write or flush makes    *)
(* the run fail.                                                           *)
ClaimC10 ==
    (prog = "main" /\ ret = "ok")
        => /\ buf = <<>>
           /\ sink # <<>>
           /\ Last(sink) = RBracket

----------------------------------------------------------------------------
(* What a run of main does, as a function of the responses alone. *)

IsPrefix(a, b) == Len(a) <= Len(b) /\ a = SubSeq(b, 1, Len(a))

(* the requests made for the responses rs *)
ExpectedReqs(rs) ==
    [i \in 1..Len(rs) |->
        [channel |-> "channel", limit |-> RESPONSE_MESSAGE_LIMIT,
         cursor |-> IF i = 1 THEN None ELSE CursorOf(rs[i - 1])]]

RECURSIVE PageOut(_, _)
(* the bytes written for the messages j.. of the page r *)
PageOut(r, j) ==
    IF j > Len(r.messages) THEN <<>>
    ELSE <<to_writer(r.messages[j])>>
         \o (IF j < Len(r.messages) \/ Continuing(r) THEN <<Comma>> ELSE <<>>)
         \o PageOut(r, j + 1)

RECURSIVE PagesOut(_)
PagesOut(rs) ==
    IF rs = <<>> THEN <<>>
    ELSE IF Failing(Last(rs)) THEN PagesOut(SubSeq(rs, 1, Len(rs) - 1))
    ELSE PagesOut(SubSeq(rs, 1, Len(rs) - 1)) \o PageOut(Last(rs), 1)

(* the bytes written for the responses rs *)
ExpectedOut(rs) ==
    IF rs = <<>> \/ Failing(rs[1]) THEN <<>>
    ELSE <<LBracket>> \o PagesOut(rs) \o (IF Final(Last(rs)) THEN <<RBracket>> ELSE <<>>)

ExpectedRet(rs) == IF Final(Last(rs)) THEN "ok" ELSE "err"

MainEnded == prog = "main" /\ pc \in {"done", "failed"}

(* C11: a run of main is determined by the responses: the requests it      *)
(* makes, the bytes it writes and its success or failure are functions of  *)
(* the sequence of responses, so two runs over the same responses agree    *)
(* (a run cut short by a failing stdout has written a prefix of the same   *)
(* bytes).                                                                 *)
ThmC11 ==
    prog = "main" =>
        /\ reqs = ExpectedReqs(resps)
        /\ IsPrefix(Out, ExpectedOut(resps))
        /\ (MainEnded /\ error # <<IoErrorText>>) =>
              /\ Out = ExpectedOut(resps)
              /\ ret = ExpectedRet(resps)
        /\ MainEnded => (ret = "ok" <=> pc = "done")

WitC11 ==
    /\ MainDone
    /\ Len(resps) = 3
    /\ Len(AllMsgs(resps)) >= 3
    /\ Out = ExpectedOut(resps)
    /\ reqs = ExpectedReqs(resps)

RECURSIVE ChunkMsgs(_)
(* the messages of the responses of rs that made a chunk, in request order *)
ChunkMsgs(rs) ==
    IF rs = <<>> THEN <<>>
    ELSE ChunkMsgs(SubSeq(rs, 1, Len(rs) - 1))
         \o (IF Failing(Last(rs)) THEN <<>> ELSE Last(rs).messages)

(* C12: the messages yielded so far by Messages::next are a prefix of the  *)
(* messages of the pages fetched so far, in request order: page order and  *)
(* within-page order are kept, nothing is yielded twice, and what is not   *)
(* yet yielded is exactly what the current chunk still holds (nothing of a *)
(* fetched page is skipped).                                               *)
ThmC12 ==
    prog = "messages" =>
        /\ IsPrefix(yielded, ChunkMsgs(resps))
        /\ yielded \o chunk.messages = ChunkMsgs(resps)
        /\ Cardinality(Range(yielded)) = Len(yielded)
        /\ \A i, j \in DOMAIN yielded : i < j => yielded[i] < yielded[j]

WitC12 ==
    /\ prog = "messages"
    /\ Len(resps) = 3
    /\ Len(yielded) >= 4
    /\ yielded = ChunkMsgs(resps)

(* the current chunk has no message left to write / to yield *)
Exhausted ==
    IF prog = "main" THEN pc = "write" /\ pos > Len(chunk.messages)
    ELSE pc = "iter" /\ chunk.messages = <<>>

(* the messages consumed so far: serialized by main, yielded by the iterator *)
Consumed == IF prog = "main" THEN ValueIds(Out) ELSE yielded

(* C13: no prefetching: a request for the next page is issued only when    *)
(* the current chunk is exhausted, so every message of the earlier pages   *)
(* has been consumed before it; requests are made one at a time and each   *)
(* has its response before the next step.                                  *)
ThmC13 ==
    /\ [](/\ Len(reqs) = Len(resps)
          /\ resps # <<>> =>
                IsPrefix(ChunkMsgs(SubSeq(resps, 1, Len(resps) - 1)), Consumed))
    /\ [][/\ Len(reqs') <= Len(reqs) + 1
          /\ (reqs' # reqs /\ reqs # <<>>) =>
                /\ Exhausted
                /\ Consumed = ChunkMsgs(resps)]_vars

WitC13 ==
    /\ prog = "main"
    /\ Len(reqs) = 2
    /\ Len(resps[1].messages) = MaxMsgs
    /\ ValueIds(Out) = resps[1].messages
    /\ ~Failing(resps[2])
    /\ resps[2].messages # <<>>

(* C14: ok is checked before has_more: a response with ok == false fails  *)
(* with the ApiError message (the API's error string or "Unknown"), never  *)
(* with the missing-cursor error and never as a chunk, whatever has_more,  *)
(* response_metadata and messages hold.                                    *)
ThmC14 ==
    (resps # <<>> /\ ApiError(Last(resps))) =>
        /\ ret = "err"
        /\ Len(error) = 2
        /\ error[1] = ApiErrorText
        /\ error[2] = unwrap_or(Last(resps).error, "Unknown")
        /\ ~Contains(error, MissingCursorText)
        /\ Range(Last(resps).messages) \cap Emitted = {}
        /\ Len(resps) = 1 => chunk = NoChunk
        /\ Len(resps) > 1 =>
              /\ chunk.tag = "NonTerminal"
              /\ chunk.next_cursor = CursorOf(resps[LatestChunk(Len(resps) - 1)])

WitC14 ==
    /\ resps # <<>>
    /\ ApiError(Last(resps))
    /\ Last(resps).has_more
    /\ Last(resps).response_metadata = None
    /\ Last(resps).error = None
    /\ Last(resps).messages # <<>>
    /\ error = <<ApiErrorText, "Unknown">>

(* C15: a response with ok == true and has_more == false (or absent, which *)
(* decodes to false) makes a Terminal chunk with its messages, empty or    *)
(* not, also when response_metadata carries a next_cursor; no request is   *)
(* issued after it and its cursor is never sent.                           *)
ThmC15 ==
    \A i \in 1..Len(resps) :
        Final(resps[i]) =>
            /\ i = Len(resps)
            /\ Len(reqs) = i
            /\ chunk.tag = "Terminal"
            /\ chunk.next_cursor = None
            /\ prog = "main" => chunk.messages = resps[i].messages
            /\ prog = "messages" =>
                  /\ yielded \o chunk.messages = ChunkMsgs(resps)
                  /\ Range(chunk.messages) \subseteq Range(resps[i].messages)
            /\ resps[i].response_metadata # None =>
                  \A j \in 1..Len(reqs) : reqs[j].cursor # CursorOf(resps[i])

WitC15 ==
    /\ MainDone
    /\ Len(resps) = 2
    /\ Final(resps[2])
    /\ resps[2].response_metadata # None
    /\ resps[2].messages = <<>>
    /\ Last(Out) = RBracket

(* the page a message belongs to, and its place in that page *)
PageOf(m) == ((m - 1) \div MaxMsgs) + 1

IndexInPage(m) == m - (PageOf(m) - 1) * MaxMsgs

(* the rule of write_message_chunk for the message m of the pages fetched *)
CommaDue(m) ==
    \/ IndexInPage(m) < Len(resps[PageOf(m)].messages)
    \/ Continuing(resps[PageOf(m)])

(* C16: after write_message_chunk has serialized a message it writes a     *)
(* comma if and only if another message remains in the same chunk or the   *)
(* chunk is NonTerminal; the last message of a Terminal chunk is never     *)
(* followed by a comma.  (A message is left without its due comma only     *)
(* when the write of that comma failed.)                                   *)
ThmC16 ==
    prog = "main" =>
        \A k \in DOMAIN Out :
            Out[k].t = "value" =>
                /\ PageOf(Out[k].id) \in 1..Len(resps)
                /\ k < Len(Out) => (Out[k + 1] = Comma <=> CommaDue(Out[k].id))
                /\ k = Len(Out) => (~CommaDue(Out[k].id) \/ error = <<IoErrorText>>)

WitC16 ==
    /\ MainDone
    /\ Len(resps) = 2
    /\ Len(resps[1].messages) = MaxMsgs
    /\ resps[2].messages = <<>>
    /\ Len(Out) >= 4
    /\ Out[Len(Out) - 2].t = "value"
    /\ Out[Len(Out) - 1] = Comma

(* C17: the sequence is single-pass: once Messages::next has returned     *)
(* end-of-sequence on an exhausted Terminal chunk, every later pull        *)
(* returns end-of-sequence again, yields nothing and issues no request.    *)
ThmC17 ==
    /\ [](ends >= 1 =>
              /\ prog = "messages"
              /\ lastPull = "end"
              /\ chunk.tag = "Terminal"
              /\ chunk.messages = <<>>
              /\ Final(Last(resps))
              /\ yielded = ChunkMsgs(resps))
    /\ [][(prog = "messages" /\ lastPull = "end" /\ chunk.tag = "Terminal") =>
              /\ lastPull' = "end"
              /\ ret' = "ok"
              /\ yielded' = yielded
              /\ chunk' = chunk
              /\ reqs' = reqs
              /\ resps' = resps]_vars

WitC17 ==
    /\ prog = "messages"
    /\ ends = MaxEnds
    /\ lastPull = "end"
    /\ Len(reqs) = 2
    /\ yielded # <<>>

(* C18: a fetch that fails inside Messages::next leaves the iterator as   *)
(* it was: current_chunk is the same exhausted NonTerminal chunk with the  *)
(* same next_cursor, nothing is yielded, and the next pull sends a request *)
(* with that same cursor.                                                  *)
ThmC18 ==
    /\ [][(prog = "messages" /\ pc = "iter" /\ reqs' # reqs /\ Failing(Last(resps'))) =>
              /\ chunk.tag = "NonTerminal"
              /\ chunk.messages = <<>>
              /\ chunk' = chunk
              /\ yielded' = yielded
              /\ pc' = pc
              /\ lastPull' = "err"
              /\ ret' = "err"
              /\ Last(reqs').cursor = chunk'.next_cursor]_vars
    /\ [](prog = "messages" =>
              \A i \in 2..Len(reqs) :
                  Failing(resps[i - 1]) =>
                      /\ i > 2
                      /\ reqs[i] = reqs[i - 1]
                      /\ reqs[i].cursor # None)

WitC18 ==
    /\ prog = "messages"
    /\ Len(reqs) = 3
    /\ Failing(resps[2])
    /\ reqs[3] = reqs[2]
    /\ reqs[3].cursor = CursorOf(resps[1])
    /\ yielded = resps[1].messages \o resps[3].messages
    /\ Len(yielded) > MaxMsgs

(* C19: in every state of main's output each comma directly follows a     *)
(* serialized message: no comma follows "[", no two commas are adjacent,   *)
(* whatever the chain of pages; an empty chunk writes no byte (from a      *)
(* state whose chunk is empty the output only ever gains the closing "]"). *)
ThmC19 ==
    /\ [](prog = "main" =>
              \A k \in DOMAIN Out :
                  Out[k] = Comma => (k > 1 /\ Out[k - 1].t = "value"))
    /\ [][(prog = "main" /\ pc = "write" /\ chunk.messages = <<>>) =>
              \/ sink' \o buf' = sink \o buf
              \/ sink' \o buf' = Append(sink \o buf, RBracket) /\ chunk.tag = "Terminal"]_vars

WitC19 ==
    /\ MainDone
    /\ Len(resps) = 3
    /\ resps[1].messages = <<>>
    /\ resps[2].messages = <<>>
    /\ Len(resps[3].messages) = MaxMsgs
    /\ NumCommas(Out) = MaxMsgs - 1
    /\ Out[2].t = "value"

=============================================================================
